---- MODULE Spec2Model ----
(***************************************************************************)
(* A model of the stockbot ranking / fill / trading pipeline               *)
(* (stockbot/algo/core.py and the adx_di_so trading system).               *)
(*                                                                         *)
(* SpecFill  : the fill policy _get_data as a pure function of its inputs. *)
(* SpecRank  : adx_rank called (at most once per step) by a stepping       *)
(*             driver, over bar data drawn anew at every call.             *)
(* SpecArgs  : the same, the caller passing any top_rank and bot_rank.     *)
(* SpecTrade : trade_di called (at most once per step) by a stepping       *)
(*             driver with any trending list and position limit; the       *)
(*             engine fills the submitted orders between steps.            *)
(* SpecDiSo  : the adx_di_so trading system: initialize, then handle_data  *)
(*             once per bar until it raises (FairDiSo: every bar is        *)
(*             delivered).                                                 *)
(* SpecRun   : the call sequence of adx_di_so.handle_data, the trading     *)
(*             calls being given a max_pos.                                *)
(* SpecPortfolio : Portfolio.adx_rank over the instruments of a Portfolio. *)
(* SpecStrat : adx_rank, trade_di, trade_sar or trade_so called (at most    *)
(*             one call per step) by a stepping driver.                    *)
(* SpecInit  : init over every list of tickers.                            *)
(* SpecSys   : init, then a system that calls a trend strategy and the     *)
(*             stochastic strategy at every bar with one max_pos.          *)
(***************************************************************************)
EXTENDS Integers, Sequences, FiniteSets, TLC

VARIABLES
    gd_in,      \* arguments of the _get_data call under study
    gd_out,     \* its result: not yet called, None, or the filled window
    i,          \* context.i, the iteration cursor
    sbot,       \* context.sbot, the strategy configuration record
    call,       \* the last operation: its name and what it fetched/evaluated
    rk,         \* the adx_rank call of the step: arguments, per-symbol ADX outcome
    positions,  \* context.portfolio.positions: signed amount held per instrument
    pending,    \* orders submitted to the engine during the current step
    tr,         \* the trading call of the step: arguments, loop list, orders
    hd,         \* the last handle_data call of adx_di_so: whether it raised,
                \* ranked and traded, and top and bot as they were before it
    ini,        \* the init call: the tickers and capital_ppt passed, its outcome
    drv,        \* the driver of a trading system: the max_pos it passes
    pf          \* a Portfolio and its adx_rank call: instruments, bars, result

varsFill == <<gd_in, gd_out>>
varsRank == <<rk>>
varsTrade == <<positions, pending, tr>>
varsCtx == <<i, sbot, call, rk, positions, pending, tr, hd>>
varsSys == <<ini, drv, pf>>
vars == <<gd_in, gd_out, i, sbot, call, rk, positions, pending, tr, hd, ini, drv,
          pf>>

----------------------------------------------------------------------------
(* Bounds *)

MaxLen == 4         \* longest bar window drawn for the fill policy
MaxStep == 29       \* the driver stops stepping at this iteration count
MaxRank == 2        \* largest top_rank / bot_rank configured
MaxTradeStep == 4   \* the trading driver stops stepping at this count
MaxPos == 3         \* largest max_pos passed to a trading strategy
MaxRankEvery == 3   \* largest rank_every configured
MaxStratStep == 5   \* the strategy driver stops stepping at this count
MaxTickers == 3     \* longest ticker list passed to init
MaxSysStep == 5     \* number of bars of a system run
MaxRunStep == 28    \* number of bars of a run of adx_di_so
MaxPortfolio == 2   \* largest number of instruments of a Portfolio

----------------------------------------------------------------------------
(* Values *)

\* a missing value (numpy nan); prices are positive numbers
NaN == 0

Fields == <<"high", "low", "close">>

FieldSet == {Fields[k] : k \in 1..Len(Fields)}

\* fill methods of pandas.Series.fillna(method=...): backfill/bfill and
\* pad/ffill are synonyms; both trading systems configure bfill
FillMethods == {"bfill", "ffill"}

\* fillna_limit as a fraction <<numerator, denominator>>; 34/100 is the
\* default of init and the value used by both trading systems
FillLimits == {<<0, 1>>, <<1, 4>>, <<1, 3>>, <<34, 100>>, <<1, 2>>, <<1, 1>>}

\* a series of w bars: the bar at position j is either missing or carries
\* the price of that bar (written j, so that a carried value shows its origin)
SeriesOf(w) == {s \in [1..w -> {NaN} \cup (1..w)] : \A j \in 1..w : s[j] \in {NaN, j}}

WindowsOf(w) == [FieldSet -> SeriesOf(w)]

----------------------------------------------------------------------------
(* _get_data *)

\* v.isnull().sum()
isnull_sum(v) == Cardinality({j \in 1..Len(v) : v[j] = NaN})

\* na > fillna_limit, where na = isnull().sum() / len(v)   (true division)
ExceedsLimit(v, lim) == isnull_sum(v) * lim[2] > lim[1] * Len(v)

\* Series.fillna(method=..., inplace=True): bfill carries the next valid
\* value backward, ffill carries the last valid value forward
fillna_series(v, method) ==
    [j \in 1..Len(v) |->
        IF v[j] # NaN THEN v[j]
        ELSE IF method = "bfill"
             THEN LET later == {k \in (j+1)..Len(v) : v[k] # NaN}
                  IN  IF later = {} THEN NaN
                      ELSE v[CHOOSE k \in later : \A m \in later : k <= m]
             ELSE LET earlier == {k \in 1..(j-1) : v[k] # NaN}
                  IN  IF earlier = {} THEN NaN
                      ELSE v[CHOOSE k \in earlier : \A m \in earlier : k >= m]]

\* _get_data validating the first field only
get_data_mut_first(input, fillna, fillna_limit) ==
    IF ExceedsLimit(input[Fields[1]], fillna_limit)
    THEN [st |-> "none", w |-> input]
    ELSE [st |-> "ok", w |-> [f \in FieldSet |-> fillna_series(input[f], fillna)]]

\* _get_data rejecting at a missing fraction equal to the limit
get_data_mut_ge(input, fillna, fillna_limit) ==
    IF \E f \in FieldSet :
          isnull_sum(input[f]) * fillna_limit[2] >= fillna_limit[1] * Len(input[f])
    THEN [st |-> "none", w |-> input]
    ELSE [st |-> "ok", w |-> [f \in FieldSet |-> fillna_series(input[f], fillna)]]

\* the result of _get_data on the window `input` pulled from data.history
get_data(input, fillna, fillna_limit) ==
    IF \E f \in FieldSet : ExceedsLimit(input[f], fillna_limit)
    THEN [st |-> "none", w |-> input]
    ELSE [st |-> "ok", w |-> [f \in FieldSet |-> fillna_series(input[f], fillna)]]


----------------------------------------------------------------------------
(* Instruments and bar data *)

\* the resolved universe, in the order given to init
Universe == <<"A", "B", "C">>

Symbols == {Universe[k] : k \in 1..Len(Universe)}

\* What the bar source holds for one instrument at one step: the shape of
\* its recent bars and the ADX the evaluator yields when it is defined.
\*   full   : every bar present
\*   lead   : the oldest bar of the window missing in every field
\*   trail  : the newest bar of the window missing in every field
\*   sparse : field low entirely missing, high and close complete
\*   fault  : every bar present, but the evaluator raises on them an error
\*            other than "inputs are all NaN"
\*   empty  : every bar missing in every field
Quotes ==
    {[kind |-> "full", adx |-> 20], [kind |-> "full", adx |-> 30],
     [kind |-> "lead", adx |-> 20], [kind |-> "trail", adx |-> 20],
     [kind |-> "sparse", adx |-> 20], [kind |-> "fault", adx |-> 20]}

\* data.history(symbol, f, window, '1d') for an instrument quoted q
history(q, f, window) ==
    [j \in 1..window |->
        IF \/ q.kind = "lead" /\ j = 1
           \/ q.kind = "trail" /\ j = window
           \/ q.kind = "sparse" /\ f = "low"
           \/ q.kind = "empty"
        THEN NaN ELSE j]

\* the window _get_data pulls: one history call per field
pull(q, window) == [f \in FieldSet |-> history(q, f, window)]

\* the bar data an operation may meet; an operation that returns before
\* it fetches anything is not sensitive to it
Markets(unread) ==
    IF unread THEN {[s \in Symbols |-> [kind |-> "full", adx |-> 20]]}
    ELSE [Symbols -> Quotes]

----------------------------------------------------------------------------
(* ADX (talib), called by adx_rank with its default timeperiod *)

ADXTimeperiod == 14

\* Outcome of ADX(high, low, close)[-1] on a filled window; v is the value
\* the evaluator computes when the last element is defined.  The evaluator
\* starts at the first bar at which every input is present, raises "inputs
\* are all NaN" when there is none, and its last element is defined only
\* when 2 * timeperiod gap-free bars are available from there.
ADX(inp, v) ==
    LET w == Len(inp["high"])
        present == {j \in 1..w : \A f \in FieldSet : inp[f][j] # NaN}
    IN  IF present = {} THEN [st |-> "allnan", v |-> 0]
        ELSE LET beg == CHOOSE j \in present : \A k \in present : j <= k
             IN  IF /\ \A j \in beg..w : j \in present
                    /\ w - beg + 1 >= 2 * ADXTimeperiod
                 THEN [st |-> "ok", v |-> v]
                 ELSE [st |-> "nan", v |-> 0]

----------------------------------------------------------------------------
(* adx_rank *)

Min(a, b) == IF a <= b THEN a ELSE b

\* the elements of a sequence
Range(seq) == {seq[k] : k \in 1..Len(seq)}

\* Python slice seq[:n] for n >= 0
SliceTo(seq, n) == SubSeq(seq, 1, Min(n, Len(seq)))

\* Python slice seq[-n:] for n >= 0; seq[-0:] is seq[0:], the whole list
SliceLast(seq, n) ==
    IF n = 0 THEN seq
    ELSE SubSeq(seq, Len(seq) - Min(n, Len(seq)) + 1, Len(seq))

\* one pass of the loop body of adx_rank for instrument s quoted q
rank_outcome(c, q, di_window) ==
    LET input == get_data(pull(q, di_window * 2), c.fillna, c.fillna_limit)
    IN  IF input.st = "none" THEN [st |-> "rejected", v |-> 0]
        ELSE IF q.kind = "fault" THEN [st |-> "error", v |-> 0]
        ELSE ADX(input.w, q.adx)

\* sorted(rank.items(), key=lambda t: t[1], reverse=True): the sort is
\* stable over the iteration order of the dict `rank`, which the supported
\* interpreters (2.7, 3.5) do not tie to insertion order; the results are
\* the descending arrangements of the items
sorted_items(items) ==
    {r \in [1..Cardinality(items) -> items] :
        /\ \A a, b \in 1..Cardinality(items) : a # b => r[a] # r[b]
        /\ \A a \in 1..(Cardinality(items) - 1) : r[a][2] >= r[a + 1][2]}

\* rank_outcome tabulated over the configurations and quotes of the model
RankOutcomes ==
    [m \in FillMethods |-> [l \in FillLimits |-> [dw \in 1..(ADXTimeperiod + 1) |->
        [q \in Quotes |-> rank_outcome([fillna |-> m, fillna_limit |-> l], q, dw)]]]]

NoOutcome == [s \in Symbols |-> [st |-> "none", v |-> 0]]

NoArgs == [top_rank |-> 0, bot_rank |-> 0, di_window |-> 0]

\* the outcome of the loop body of adx_rank for every instrument of the
\* universe, were the loop to reach it
rank_outcomes(di_window, mkt) ==
    [s \in Symbols |->
        IF s \in Range(sbot.symbols)
        THEN RankOutcomes[sbot.fillna][sbot.fillna_limit][di_window][mkt[s]]
        ELSE [st |-> "none", v |-> 0]]

\* the loop of adx_rank swallowing every evaluator error
adx_rank_store_mut_swallow(top_rank, bot_rank, di_window, mkt) ==
    LET out == rank_outcomes(di_window, mkt)
        items == {<<s, out[s].v>> : s \in {x \in Symbols : out[x].st = "ok"}}
    IN  /\ \E r \in sorted_items(items) :
             sbot' = [sbot EXCEPT !.rank = r,
                                  !.has_rank = TRUE,
                                  !.top = SliceTo(r, sbot.top_rank),
                                  !.bot = SliceLast(r, sbot.bot_rank)]
        /\ call' = [op |-> "adx_rank",
                    fetched |-> Len(Fields) * Len(sbot.symbols),
                    evals |-> Cardinality({s \in Symbols :
                                             out[s].st \notin {"rejected", "none"}})]
        /\ rk' = [args |-> [top_rank |-> top_rank, bot_rank |-> bot_rank,
                            di_window |-> di_window],
                  ranked |-> TRUE, raised |-> "none", adx |-> out]

\* the loop and the stores of adx_rank (past the history check): the
\* instruments are fetched, validated and evaluated in the order of the
\* universe; an evaluator error other than "inputs are all NaN" is raised
\* again and ends the call at that instrument, before anything is stored;
\* otherwise the defined values are sorted and rank, top and bot are stored
adx_rank_store(top_rank, bot_rank, di_window, mkt) ==
    LET out == rank_outcomes(di_window, mkt)
        errs == {k \in 1..Len(sbot.symbols) : out[sbot.symbols[k]].st = "error"}
        items == {<<s, out[s].v>> : s \in {x \in Symbols : out[x].st = "ok"}}
    IN  IF errs # {}
        THEN LET stop == CHOOSE k \in errs : \A m \in errs : k <= m
                 seen == Range(SubSeq(sbot.symbols, 1, stop))
             IN  /\ UNCHANGED sbot
                 /\ call' = [op |-> "adx_rank",
                             fetched |-> Len(Fields) * stop,
                             evals |-> Cardinality({s \in seen : out[s].st # "rejected"})]
                 /\ rk' = [args |-> [top_rank |-> top_rank, bot_rank |-> bot_rank,
                                     di_window |-> di_window],
                           ranked |-> FALSE, raised |-> "Exception",
                           adx |-> [s \in Symbols |->
                                       IF s \in seen THEN out[s]
                                       ELSE [st |-> "none", v |-> 0]]]
        ELSE /\ \E r \in sorted_items(items) :
                  sbot' = [sbot EXCEPT !.rank = r,
                                       !.has_rank = TRUE,
                                       !.top = SliceTo(r, sbot.top_rank),
                                       !.bot = SliceLast(r, sbot.bot_rank)]
             /\ call' = [op |-> "adx_rank",
                         fetched |-> Len(Fields) * Len(sbot.symbols),
                         evals |-> Cardinality({s \in Symbols :
                                                  out[s].st \notin {"rejected", "none"}})]
             /\ rk' = [args |-> [top_rank |-> top_rank, bot_rank |-> bot_rank,
                                 di_window |-> di_window],
                       ranked |-> TRUE, raised |-> "none", adx |-> out]

\* adx_rank without its history check
adx_rank_mut_nocheck(ctx_i, top_rank, bot_rank, di_window, mkt) ==
    adx_rank_store(top_rank, bot_rank, di_window, mkt)

\* adx_rank(context, data, symbols=c['symbols'], top_rank, bot_rank, di_window)
\* at context.i = ctx_i, over the bar data mkt
adx_rank(ctx_i, top_rank, bot_rank, di_window, mkt) ==
    IF ctx_i < di_window * 2
    THEN /\ call' = [op |-> "adx_rank", fetched |-> 0, evals |-> 0]
         /\ rk' = [args |-> [top_rank |-> top_rank, bot_rank |-> bot_rank,
                             di_window |-> di_window],
                   ranked |-> FALSE, raised |-> "none", adx |-> NoOutcome]
         /\ UNCHANGED sbot
    ELSE adx_rank_store(top_rank, bot_rank, di_window, mkt)

----------------------------------------------------------------------------
(* Portfolio.adx_rank *)

\* what the data portal holds for one instrument of a Portfolio
PfQuotes ==
    {[kind |-> "full", adx |-> 20], [kind |-> "full", adx |-> 30],
     [kind |-> "lead", adx |-> 20], [kind |-> "sparse", adx |-> 20],
     [kind |-> "empty", adx |-> 20], [kind |-> "fault", adx |-> 20]}

\* the bar_count a caller passes; 28 is the default
BarCounts == {2 * ADXTimeperiod - 1, 2 * ADXTimeperiod, 2 * ADXTimeperiod + 1}

\* self.portfolio as built by Portfolio(*args): the instruments looked up,
\* in the order given, each one once
Portfolios ==
    {l \in UNION {[1..n -> Symbols] : n \in 0..Min(MaxPortfolio, Len(Universe))} :
        \A a, b \in 1..Len(l) : a # b => l[a] # l[b]}

\* the three get_zipline_hist windows of one instrument and ADX(input)[-1]
\* on them, unfilled
pf_outcome(q, bar_count) ==
    IF q.kind = "fault" THEN [st |-> "error", v |-> 0]
    ELSE ADX(pull(q, bar_count), q.adx)

\* pf_outcome tabulated over the bar counts and quotes of the model
PfOutcomes ==
    [bc \in BarCounts |-> [q \in PfQuotes |-> pf_outcome(q, bc)]]

NoPortfolio == [portfolio |-> <<>>, bar_count |-> 0, mkt |-> <<>>, st |-> "none",
                result |-> <<>>]

\* Portfolio.adx_rank raising on all-undefined inputs as on any other error
portfolio_adx_rank_mut_raise(bar_count, mkt) ==
    LET out == [s \in Range(pf.portfolio) |-> PfOutcomes[bar_count][mkt[s]]]
        items == {<<s, out[s].v>> : s \in {x \in Range(pf.portfolio) : out[x].st = "ok"}}
    IN  IF \E s \in Range(pf.portfolio) : out[s].st \in {"error", "allnan"}
        THEN pf' = [pf EXCEPT !.bar_count = bar_count, !.mkt = mkt,
                              !.st = "raised"]
        ELSE \E r \in sorted_items(items) :
                pf' = [pf EXCEPT !.bar_count = bar_count, !.mkt = mkt,
                                 !.st = "returned", !.result = r]

\* Portfolio.adx_rank(asof, bar_count) over the bars mkt: an instrument whose
\* last ADX is nan or whose inputs are all nan is left out, any other
\* evaluator error is raised again, and the items are sorted by descending
\* ADX
portfolio_adx_rank(bar_count, mkt) ==
    LET out == [s \in Range(pf.portfolio) |-> PfOutcomes[bar_count][mkt[s]]]
        items == {<<s, out[s].v>> : s \in {x \in Range(pf.portfolio) : out[x].st = "ok"}}
    IN  IF \E s \in Range(pf.portfolio) : out[s].st = "error"
        THEN pf' = [pf EXCEPT !.bar_count = bar_count, !.mkt = mkt,
                              !.st = "raised"]
        ELSE \E r \in sorted_items(items) :
                pf' = [pf EXCEPT !.bar_count = bar_count, !.mkt = mkt,
                                 !.st = "returned", !.result = r]

----------------------------------------------------------------------------
(* The stepping driver *)

\* context.i += 1 at the head of handle_data
StepCounter ==
    /\ i' = i + 1
    /\ call' = [op |-> "step", fetched |-> 0, evals |-> 0]

----------------------------------------------------------------------------
(* Order-target resolution and the directional-indicator strategy *)

\* _get_order_target closing a held position on an opposite signal whether
\* or not the symbol is still in the universe
get_order_target_mut_anyclose(symbol, order_type, symbols, p, capital_ppt) ==
    LET position == p[symbol]
        short_cover == order_type = "long" /\ position < 0
        long_sell == order_type = "short" /\ position > 0
    IN  IF short_cover \/ long_sell \/ order_type = "close" THEN 0
        ELSE IF order_type = "long" THEN capital_ppt
        ELSE 0 - capital_ppt

\* _get_order_target without the short-cover criterion
get_order_target_mut_nocover(symbol, order_type, symbols, p, capital_ppt) ==
    LET position == p[symbol]
        long_sell == order_type = "short" /\ symbol \notin symbols /\ position > 0
    IN  IF long_sell \/ order_type = "close" THEN 0
        ELSE IF order_type = "long" THEN capital_ppt
        ELSE 0 - capital_ppt

\* _get_order_target(symbol, order_type, symbols, positions, capital_ppt)
get_order_target(symbol, order_type, symbols, p, capital_ppt) ==
    LET position == p[symbol]
        short_cover == order_type = "long" /\ symbol \notin symbols /\ position < 0
        long_sell == order_type = "short" /\ symbol \notin symbols /\ position > 0
    IN  IF short_cover \/ long_sell \/ order_type = "close" THEN 0
        ELSE IF order_type = "long" THEN capital_ppt
        ELSE 0 - capital_ppt

\* What the bar source holds for one instrument at a trade_di call: the
\* shape of its bars and the +DI / -DI the evaluator yields when defined.
DiQuotes ==
    {[kind |-> "full", plus_di |-> 20, minus_di |-> 10],
     [kind |-> "full", plus_di |-> 10, minus_di |-> 20],
     [kind |-> "lead", plus_di |-> 10, minus_di |-> 10],
     [kind |-> "trail", plus_di |-> 20, minus_di |-> 10],
     [kind |-> "sparse", plus_di |-> 20, minus_di |-> 10]}

\* PLUS_DI / MINUS_DI(high, low, close, timeperiod)[-1] on a filled window:
\* defined (the value v) only over timeperiod + 1 gap-free bars.  A window
\* accepted under a fillna_limit below 1 always holds a present bar.
DI(inp, timeperiod, v) ==
    LET w == Len(inp["high"])
        present == {j \in 1..w : \A f \in FieldSet : inp[f][j] # NaN}
    IN  IF present = {} THEN NaN
        ELSE LET beg == CHOOSE j \in present : \A k \in present : j <= k
             IN  IF /\ \A j \in beg..w : j \in present
                    /\ w - beg + 1 >= timeperiod + 1
                 THEN v ELSE NaN

\* a > b on floats: false whenever an operand is nan
Gt(a, b) == a # NaN /\ b # NaN /\ a > b

\* list(p): the instruments held, in the iteration order of the dict
PositionLists(p) ==
    LET held == {s \in Symbols : p[s] # 0}
    IN  {l \in [1..Cardinality(held) -> held] :
            \A a, b \in 1..Cardinality(held) : a # b => l[a] # l[b]}

\* the head of the loop body of trade_di for an instrument quoted q: the
\* window is fetched and validated, the indicators computed, the order
\* type set
di_signal(c, q, di_window) ==
    LET input == get_data(pull(q, di_window + 1), c.fillna, c.fillna_limit)
        plus_di == DI(input.w, di_window, q.plus_di)
        minus_di == DI(input.w, di_window, q.minus_di)
    IN  [skip |-> input.st = "none",
         nan |-> plus_di = NaN \/ minus_di = NaN,
         order_type |-> IF Gt(plus_di, minus_di) THEN "long"
                        ELSE IF Gt(minus_di, plus_di) THEN "short"
                        ELSE "close"]

\* di_signal tabulated over the configurations and quotes of the model
DiSignals ==
    [m \in FillMethods |-> [l \in FillLimits |-> [dw \in 1..(ADXTimeperiod + 1) |->
        [q \in DiQuotes |-> di_signal([fillna |-> m, fillna_limit |-> l], q, dw)]]]]

\* one pass of the loop body of trade_di for instrument s quoted q
di_body(c, p, s, q, t_symbols, di_window) ==
    LET sig == DiSignals[c.fillna][c.fillna_limit][di_window][q]
    IN  [skip |-> sig.skip,
         nan |-> sig.nan,
         symbol |-> s,
         order_type |-> sig.order_type,
         target |-> get_order_target(s, sig.order_type, Range(t_symbols), p,
                                     c.capital_ppt)]

NoOrders == [s \in Symbols |-> [has |-> FALSE, target |-> 0]]

NoTrade == [op |-> "none", t_symbols |-> <<>>, max_pos |-> 0, window |-> 0,
            loop |-> <<>>, orders |-> <<>>]

\* the orders of a call, submitted in sequence on top of those pending
Submit(pend, orders) ==
    [s \in Symbols |->
        LET mine == {k \in 1..Len(orders) : orders[k].symbol = s}
        IN  IF mine = {} THEN pend[s]
            ELSE [has |-> TRUE,
                  target |-> orders[CHOOSE k \in mine : \A m \in mine : k >= m].target]]

\* the metadata store also resetting capital_ppt
StoreMeta_mut_capital(c, orders) ==
    [c EXCEPT !.order_meta = @ + Len(orders),
              !.capital_ppt = IF orders = <<>> THEN @ ELSE 2 * @]

\* c['_order_meta'][order_id] = _meta, once per order placed; order_meta
\* counts the records written
StoreMeta(c, orders) == [c EXCEPT !.order_meta = @ + Len(orders)]

\* trade_di trading the first instrument of the universe when nothing is
\* held or selected
trade_di_mut_universe(ctx_i, t_symbols, max_pos, di_window, plist, mkt) ==
    IF ctx_i < di_window + 1
    THEN /\ call' = [op |-> "trade_di", fetched |-> 0, evals |-> 0]
         /\ tr' = [op |-> "trade_di", t_symbols |-> t_symbols,
                   max_pos |-> max_pos, window |-> di_window,
                   loop |-> <<>>, orders |-> <<>>]
         /\ UNCHANGED <<pending, sbot>>
    ELSE LET loop == IF plist \o t_symbols = <<>> /\ DOMAIN mkt # {}
                     THEN <<CHOOSE s \in DOMAIN mkt : TRUE>>
                     ELSE SliceTo(plist \o t_symbols, max_pos)
             body == [k \in 1..Len(loop) |->
                        di_body(sbot, positions, loop[k], mkt[loop[k]],
                                t_symbols, di_window)]
             orders == SelectSeq(body, LAMBDA o : ~o.skip)
         IN  /\ call' = [op |-> "trade_di",
                         fetched |-> Len(Fields) * Len(loop),
                         evals |-> 2 * Len(orders)]
             /\ tr' = [op |-> "trade_di", t_symbols |-> t_symbols,
                       max_pos |-> max_pos, window |-> di_window,
                       loop |-> loop, orders |-> orders]
             /\ pending' = Submit(pending, orders)
             /\ sbot' = StoreMeta(sbot, orders)

\* trade_di(context, data, t_symbols, max_pos, di_window) at context.i =
\* ctx_i, with list(p) iterating as plist, over the bar data mkt
trade_di(ctx_i, t_symbols, max_pos, di_window, plist, mkt) ==
    IF ctx_i < di_window + 1
    THEN /\ call' = [op |-> "trade_di", fetched |-> 0, evals |-> 0]
         /\ tr' = [op |-> "trade_di", t_symbols |-> t_symbols,
                   max_pos |-> max_pos, window |-> di_window,
                   loop |-> <<>>, orders |-> <<>>]
         /\ UNCHANGED <<pending, sbot>>
    ELSE LET loop == SliceTo(plist \o t_symbols, max_pos)
             body == [k \in 1..Len(loop) |->
                        di_body(sbot, positions, loop[k], mkt[loop[k]],
                                t_symbols, di_window)]
             orders == SelectSeq(body, LAMBDA o : ~o.skip)
         IN  /\ call' = [op |-> "trade_di",
                         fetched |-> Len(Fields) * Len(loop),
                         evals |-> 2 * Len(orders)]
             /\ tr' = [op |-> "trade_di", t_symbols |-> t_symbols,
                       max_pos |-> max_pos, window |-> di_window,
                       loop |-> loop, orders |-> orders]
             /\ pending' = Submit(pending, orders)
             /\ sbot' = StoreMeta(sbot, orders)

----------------------------------------------------------------------------
(* The parabolic-SAR strategy *)

\* What the bar source holds for one instrument at a trade_sar call: the
\* shape of its bars and the SAR the evaluator yields when defined (the
\* close of the last bar is the window length, see history).
SarQuotes ==
    {[kind |-> "full", sar |-> 1], [kind |-> "full", sar |-> 100],
     [kind |-> "lead", sar |-> 1], [kind |-> "trail", sar |-> 100]}

\* SAR(high, low, accel, accel_max)[-1] on a filled window: defined (the
\* value v) only over two gap-free bars of high and low
SAR(inp, v) ==
    LET w == Len(inp["high"])
        present == {j \in 1..w : inp["high"][j] # NaN /\ inp["low"][j] # NaN}
    IN  IF present = {} THEN NaN
        ELSE LET beg == CHOOSE j \in present : \A k \in present : j <= k
             IN  IF /\ \A j \in beg..w : j \in present
                    /\ w - beg + 1 >= 2
                 THEN v ELSE NaN

\* the head of the loop body of trade_sar for an instrument quoted q, over
\* a window of context.i bars
sar_signal(c, q, window) ==
    LET input == get_data(pull(q, window), c.fillna, c.fillna_limit)
        sars == SAR(input.w, q.sar)
        close == input.w["close"][window]
    IN  [skip |-> input.st = "none",
         nan |-> sars = NaN,
         order_type |-> IF Gt(close, sars) THEN "long"
                        ELSE IF Gt(sars, close) THEN "short"
                        ELSE "close"]

\* sar_signal tabulated over the configurations and quotes of the model
SarSignals ==
    [m \in FillMethods |-> [l \in FillLimits |-> [w \in 1..(ADXTimeperiod + 1) |->
        [q \in SarQuotes |-> sar_signal([fillna |-> m, fillna_limit |-> l], q, w)]]]]

\* one pass of the loop body of trade_sar for instrument s quoted q
sar_body(c, p, s, q, t_symbols, window) ==
    LET sig == SarSignals[c.fillna][c.fillna_limit][window][q]
    IN  [skip |-> sig.skip,
         nan |-> sig.nan,
         symbol |-> s,
         order_type |-> sig.order_type,
         target |-> get_order_target(s, sig.order_type, Range(t_symbols), p,
                                     c.capital_ppt)]

\* trade_sar over a fixed lookback of two bars
trade_sar_mut_fixed(ctx_i, t_symbols, max_pos, plist, mkt) ==
    IF ctx_i < 2
    THEN /\ call' = [op |-> "trade_sar", fetched |-> 0, evals |-> 0]
         /\ tr' = [op |-> "trade_sar", t_symbols |-> t_symbols,
                   max_pos |-> max_pos, window |-> 0,
                   loop |-> <<>>, orders |-> <<>>]
         /\ UNCHANGED <<pending, sbot>>
    ELSE LET loop == SliceTo(plist \o t_symbols, max_pos)
             window == 2
             body == [k \in 1..Len(loop) |->
                        sar_body(sbot, positions, loop[k], mkt[loop[k]],
                                 t_symbols, window)]
             orders == SelectSeq(body, LAMBDA o : ~o.skip)
         IN  /\ call' = [op |-> "trade_sar",
                         fetched |-> Len(Fields) * Len(loop),
                         evals |-> Len(orders)]
             /\ tr' = [op |-> "trade_sar", t_symbols |-> t_symbols,
                       max_pos |-> max_pos, window |-> window,
                       loop |-> loop, orders |-> orders]
             /\ pending' = Submit(pending, orders)
             /\ sbot' = StoreMeta(sbot, orders)

\* trade_sar(context, data, t_symbols, max_pos) at context.i = ctx_i, with
\* list(p) iterating as plist, over the bar data mkt; the window requested
\* for every symbol is context.i bars (tr.window; 0 when nothing is fetched)
trade_sar(ctx_i, t_symbols, max_pos, plist, mkt) ==
    IF ctx_i < 2
    THEN /\ call' = [op |-> "trade_sar", fetched |-> 0, evals |-> 0]
         /\ tr' = [op |-> "trade_sar", t_symbols |-> t_symbols,
                   max_pos |-> max_pos, window |-> 0,
                   loop |-> <<>>, orders |-> <<>>]
         /\ UNCHANGED <<pending, sbot>>
    ELSE LET loop == SliceTo(plist \o t_symbols, max_pos)
             window == ctx_i
             body == [k \in 1..Len(loop) |->
                        sar_body(sbot, positions, loop[k], mkt[loop[k]],
                                 t_symbols, window)]
             orders == SelectSeq(body, LAMBDA o : ~o.skip)
         IN  /\ call' = [op |-> "trade_sar",
                         fetched |-> Len(Fields) * Len(loop),
                         evals |-> Len(orders)]
             /\ tr' = [op |-> "trade_sar", t_symbols |-> t_symbols,
                       max_pos |-> max_pos, window |-> window,
                       loop |-> loop, orders |-> orders]
             /\ pending' = Submit(pending, orders)
             /\ sbot' = StoreMeta(sbot, orders)

----------------------------------------------------------------------------
(* The stochastic-oscillator strategy *)

\* What the bar source holds for one instrument at a trade_so call: the
\* shape of its bars and the %K / %D the evaluator yields when defined.
SoQuotes ==
    {[kind |-> "full", so_k |-> 80, so_d |-> 70],
     [kind |-> "full", so_k |-> 20, so_d |-> 30],
     [kind |-> "lead", so_k |-> 50, so_d |-> 50],
     [kind |-> "trail", so_k |-> 80, so_d |-> 70]}

\* STOCH(high, low, close, fastk_period)[.][-1] on a filled window, with the
\* evaluator's default slowing periods (3 and 3): defined (the value v)
\* only over fastk_period + 4 gap-free bars
STOCH(inp, fastk_period, v) ==
    LET w == Len(inp["high"])
        present == {j \in 1..w : \A f \in FieldSet : inp[f][j] # NaN}
    IN  IF present = {} THEN NaN
        ELSE LET beg == CHOOSE j \in present : \A k \in present : j <= k
             IN  IF /\ \A j \in beg..w : j \in present
                    /\ w - beg + 1 >= fastk_period + 4
                 THEN v ELSE NaN

\* the head of the loop body of trade_so for an instrument quoted q
so_signal(c, q, so_window) ==
    LET input == get_data(pull(q, so_window + 4), c.fillna, c.fillna_limit)
        so_k == STOCH(input.w, so_window, q.so_k)
        so_d == STOCH(input.w, so_window, q.so_d)
    IN  [skip |-> input.st = "none",
         nan |-> so_k = NaN \/ so_d = NaN,
         order_type |-> IF Gt(so_k, so_d) THEN "long"
                        ELSE IF Gt(so_d, so_k) THEN "short"
                        ELSE "close"]

\* so_signal tabulated over the configurations and quotes of the model
SoSignals ==
    [m \in FillMethods |-> [l \in FillLimits |-> [sw \in 1..(ADXTimeperiod + 1) |->
        [q \in SoQuotes |-> so_signal([fillna |-> m, fillna_limit |-> l], q, sw)]]]]

\* one pass of the loop body of trade_so for instrument s quoted q
so_body(c, p, s, q, o_symbols, so_window) ==
    LET sig == SoSignals[c.fillna][c.fillna_limit][so_window][q]
    IN  [skip |-> sig.skip,
         nan |-> sig.nan,
         symbol |-> s,
         order_type |-> sig.order_type,
         target |-> get_order_target(s, sig.order_type, Range(o_symbols), p,
                                     c.capital_ppt)]

\* trade_so checking its history against so_window alone
trade_so_mut_short(ctx_i, o_symbols, max_pos, so_window, plist, mkt) ==
    IF ctx_i < so_window
    THEN /\ call' = [op |-> "trade_so", fetched |-> 0, evals |-> 0]
         /\ tr' = [op |-> "trade_so", t_symbols |-> o_symbols,
                   max_pos |-> max_pos, window |-> so_window,
                   loop |-> <<>>, orders |-> <<>>]
         /\ UNCHANGED <<pending, sbot>>
    ELSE LET loop == SliceTo(plist \o o_symbols, max_pos)
             body == [k \in 1..Len(loop) |->
                        so_body(sbot, positions, loop[k], mkt[loop[k]],
                                o_symbols, so_window)]
             orders == SelectSeq(body, LAMBDA o : ~o.skip)
         IN  /\ call' = [op |-> "trade_so",
                         fetched |-> Len(Fields) * Len(loop),
                         evals |-> Len(orders)]
             /\ tr' = [op |-> "trade_so", t_symbols |-> o_symbols,
                       max_pos |-> max_pos, window |-> so_window,
                       loop |-> loop, orders |-> orders]
             /\ pending' = Submit(pending, orders)
             /\ sbot' = StoreMeta(sbot, orders)

\* trade_so(context, data, o_symbols, max_pos, so_window) at context.i =
\* ctx_i, with list(p) iterating as plist, over the bar data mkt
trade_so(ctx_i, o_symbols, max_pos, so_window, plist, mkt) ==
    IF ctx_i < so_window + 4
    THEN /\ call' = [op |-> "trade_so", fetched |-> 0, evals |-> 0]
         /\ tr' = [op |-> "trade_so", t_symbols |-> o_symbols,
                   max_pos |-> max_pos, window |-> so_window,
                   loop |-> <<>>, orders |-> <<>>]
         /\ UNCHANGED <<pending, sbot>>
    ELSE LET loop == SliceTo(plist \o o_symbols, max_pos)
             body == [k \in 1..Len(loop) |->
                        so_body(sbot, positions, loop[k], mkt[loop[k]],
                                o_symbols, so_window)]
             orders == SelectSeq(body, LAMBDA o : ~o.skip)
         IN  /\ call' = [op |-> "trade_so",
                         fetched |-> Len(Fields) * Len(loop),
                         evals |-> Len(orders)]
             /\ tr' = [op |-> "trade_so", t_symbols |-> o_symbols,
                       max_pos |-> max_pos, window |-> so_window,
                       loop |-> loop, orders |-> orders]
             /\ pending' = Submit(pending, orders)
             /\ sbot' = StoreMeta(sbot, orders)

----------------------------------------------------------------------------
(* The order sink *)

\* the engine between two steps: every order submitted with
\* order_target_percent is filled, the position taking the sign of the
\* last target ordered for the instrument
Sign(x) == IF x > 0 THEN 1 ELSE IF x < 0 THEN 0 - 1 ELSE 0

Fill(p, pend) ==
    [s \in Symbols |-> IF pend[s].has THEN Sign(pend[s].target) ELSE p[s]]

\* capital fractions are counted in sixtieths, so that 1.0 / len(v_symbols)
\* is exact for every universe of the model
One == 60

\* capital_ppt = 1.0 / (5.0 + 5.0) in both trading systems
CapitalPpt == 6

\* context.sbot as stored by init
Config(fillna, fillna_limit, top_rank, bot_rank, di_window, rank_every) ==
    [symbols |-> Universe,
     capital_ppt |-> CapitalPpt,
     fillna |-> fillna,
     fillna_limit |-> fillna_limit,
     top_rank |-> top_rank,
     bot_rank |-> bot_rank,
     di_window |-> di_window,
     rank_every |-> rank_every,
     order_meta |-> 0,
     has_rank |-> FALSE,
     rank |-> <<>>,
     top |-> <<>>,
     bot |-> <<>>]


----------------------------------------------------------------------------
(* init *)

\* the tickers a caller may request; "X" is unknown to the engine
Tickers == {"A", "B", "X"}

\* symbol(s) resolves the ticker or raises SymbolNotFound
Resolves(s) == s \in Symbols

\* the validation loop of init: v_symbols
Validated(tickers) == SelectSeq(tickers, Resolves)

\* capital_ppt=None, the default of init; `not capital_ppt` also holds of 0
NoCapital == 0

\* context.sbot does not exist before init stores it
NoConfig == <<>>

\* init dividing by the number of requested tickers
init_mut_requested(tickers, capital_ppt) ==
    LET v_symbols == Validated(tickers)
    IN  /\ i' = 0
        /\ IF capital_ppt = NoCapital /\ Len(tickers) = 0
           THEN /\ ini' = [ini EXCEPT !.st = "ZeroDivisionError"]
                /\ UNCHANGED sbot
           ELSE /\ ini' = [ini EXCEPT !.st = "stored"]
                /\ sbot' = [Config("bfill", <<34, 100>>, 1, 1, 2, 1) EXCEPT
                               !.symbols = v_symbols,
                               !.capital_ppt = IF capital_ppt = NoCapital
                                               THEN One \div Len(tickers)
                                               ELSE capital_ppt]

\* init trading the whole universe when no ticker resolves
init_mut_default(tickers, capital_ppt) ==
    LET v_symbols == IF Validated(tickers) = <<>> THEN Universe
                     ELSE Validated(tickers)
    IN  /\ i' = 0
        /\ ini' = [ini EXCEPT !.st = "stored"]
        /\ sbot' = [Config("bfill", <<34, 100>>, 1, 1, 2, 1) EXCEPT
                       !.symbols = v_symbols,
                       !.capital_ppt = IF capital_ppt = NoCapital
                                       THEN One \div Len(v_symbols)
                                       ELSE capital_ppt]

\* init(context, name, symbols=tickers, capital_ppt, fillna='bfill',
\* fillna_limit=0.34, **kwargs): the cursor is reset, the tickers are
\* validated, capital_ppt defaults to 1.0 / len(v_symbols), which raises
\* ZeroDivisionError on an empty v_symbols before anything is stored
init(tickers, capital_ppt) ==
    LET v_symbols == Validated(tickers)
    IN  /\ i' = 0
        /\ IF capital_ppt = NoCapital /\ Len(v_symbols) = 0
           THEN /\ ini' = [ini EXCEPT !.st = "ZeroDivisionError"]
                /\ UNCHANGED sbot
           ELSE /\ ini' = [ini EXCEPT !.st = "stored"]
                /\ sbot' = [Config("bfill", <<34, 100>>, 1, 1, 2, 1) EXCEPT
                               !.symbols = v_symbols,
                               !.capital_ppt = IF capital_ppt = NoCapital
                                               THEN One \div Len(v_symbols)
                                               ELSE capital_ppt]

----------------------------------------------------------------------------
(* adx_di_so.handle_data *)

NoHandler == [ran |-> FALSE, raised |-> "none", rank_step |-> FALSE,
              traded |-> FALSE, top_was |-> <<>>, bot_was |-> <<>>]

\* context['rank_every'] subscripts the algorithm object, not context.sbot:
\* the engine's object either does not support it (TypeError) or yields the
\* configured value
Subscripts == {"TypeError", "value"}

\* (context.i - 1) / context['rank_every'] % 1 == 0.0 under true division
IsRankStep(ctx_i, rank_every) == (ctx_i - 1) % rank_every = 0

\* handle_data(context, data): the counter is incremented, the universe is
\* ranked on a rank iteration, and trade_di is then called with t_symbols
\* and di_window only; max_pos, a required parameter of trade_di, is not
\* passed, so the call raises TypeError before trade_di or trade_so runs
handle_data(sub, mkt) ==
    LET ctx_i == i + 1
        rank_step == sub = "value" /\ IsRankStep(ctx_i, sbot.rank_every)
    IN  /\ i' = ctx_i
        /\ IF rank_step
           THEN adx_rank(ctx_i, sbot.top_rank, sbot.bot_rank, sbot.di_window, mkt)
           ELSE /\ call' = [op |-> "handle_data", fetched |-> 0, evals |-> 0]
                /\ UNCHANGED <<sbot, rk>>
        /\ hd' = [ran |-> TRUE,
                  raised |-> IF rk'.raised # "none" THEN rk'.raised ELSE "TypeError",
                  rank_step |-> rank_step, traded |-> FALSE,
                  top_was |-> sbot.top, bot_was |-> sbot.bot]
        /\ UNCHANGED <<positions, pending, tr>>

----------------------------------------------------------------------------
(* SpecFill *)

IdleHandler ==
    hd = NoHandler

IdleRank ==
    rk = [args |-> NoArgs, ranked |-> FALSE, raised |-> "none", adx |-> NoOutcome]

IdleTrade ==
    /\ positions = [s \in Symbols |-> 0]
    /\ pending = NoOrders
    /\ tr = NoTrade

\* init has stored the configuration of the whole universe; no driver
IdleSys ==
    /\ ini = [tickers |-> Universe, capital_ppt |-> CapitalPpt, st |-> "stored"]
    /\ drv = [max_pos |-> 0, trend |-> "none"]
    /\ pf = NoPortfolio

IdleCtx ==
    /\ i = 0
    /\ sbot = Config("bfill", <<34, 100>>, 0, 0, ADXTimeperiod, 1)
    /\ call = [op |-> "init", fetched |-> 0, evals |-> 0]
    /\ IdleRank
    /\ IdleTrade
    /\ IdleHandler

IdleFill ==
    /\ gd_in = [input |-> [f \in FieldSet |-> <<1>>], fillna |-> "bfill",
                fillna_limit |-> <<34, 100>>]
    /\ gd_out = [st |-> "pending", w |-> gd_in.input]

InitFill ==
    /\ IdleCtx
    /\ IdleSys
    /\ \E w \in 1..MaxLen, m \in FillMethods, l \in FillLimits :
         \E win \in WindowsOf(w) :
            gd_in = [input |-> win, fillna |-> m, fillna_limit |-> l]
    /\ gd_out = [st |-> "pending", w |-> gd_in.input]

GetData ==
    /\ gd_out.st = "pending"
    /\ gd_out' = get_data(gd_in.input, gd_in.fillna, gd_in.fillna_limit)
    /\ UNCHANGED <<gd_in, varsCtx, varsSys>>

NextFill == GetData

SpecFill == InitFill /\ [][NextFill]_vars

----------------------------------------------------------------------------
(* SpecRank *)

DiWindows == {ADXTimeperiod - 1, ADXTimeperiod}

RankLimits == {<<34, 100>>, <<1, 1>>}

InitRank ==
    /\ IdleFill
    /\ IdleSys
    /\ i = 0
    /\ \E l \in RankLimits, t \in 0..MaxRank, b \in 0..MaxRank, dw \in DiWindows :
          sbot = Config("bfill", l, t, b, dw, 1)
    /\ call = [op |-> "init", fetched |-> 0, evals |-> 0]
    /\ IdleRank
    /\ IdleTrade
    /\ IdleHandler

Step ==
    /\ i < MaxStep
    /\ rk.raised = "none"
    /\ StepCounter
    /\ rk' = [args |-> NoArgs, ranked |-> FALSE, raised |-> "none", adx |-> NoOutcome]
    /\ UNCHANGED <<sbot, hd, varsTrade, varsFill, varsSys>>

\* a handler ranks at most once per step, with its configured arguments
AdxRank ==
    /\ call.op = "step"
    /\ \E mkt \in Markets(i < sbot.di_window * 2) :
          adx_rank(i, sbot.top_rank, sbot.bot_rank, sbot.di_window, mkt)
    /\ UNCHANGED <<i, hd, varsTrade, varsFill, varsSys>>

NextRank == Step \/ AdxRank

SpecRank == InitRank /\ [][NextRank]_vars

----------------------------------------------------------------------------
(* SpecArgs *)

\* the bars a caller of adx_rank with its own arguments may meet: complete
\* ones, or the newest bar missing
ArgQuotes ==
    {q \in Quotes : q.kind \in {"full", "trail"}}

ArgMarkets(unread) ==
    IF unread THEN {[s \in Symbols |-> [kind |-> "full", adx |-> 20]]}
    ELSE [Symbols -> ArgQuotes]

InitArgs ==
    /\ IdleFill
    /\ IdleSys
    /\ i = 0
    /\ \E t \in 0..MaxRank, b \in 0..MaxRank :
          sbot = Config("bfill", <<34, 100>>, t, b, ADXTimeperiod, 1)
    /\ call = [op |-> "init", fetched |-> 0, evals |-> 0]
    /\ IdleRank
    /\ IdleTrade
    /\ IdleHandler

\* a caller ranks at most once per step, with any top_rank and bot_rank
AdxRankArgs ==
    /\ call.op = "step"
    /\ \E top_rank \in 0..MaxRank, bot_rank \in 0..MaxRank :
         \E mkt \in ArgMarkets(i < sbot.di_window * 2) :
            adx_rank(i, top_rank, bot_rank, sbot.di_window, mkt)
    /\ UNCHANGED <<i, hd, varsTrade, varsFill, varsSys>>

NextArgs == Step \/ AdxRankArgs

SpecArgs == InitArgs /\ [][NextArgs]_vars

----------------------------------------------------------------------------
(* SpecTrade *)

\* di_window of the trading driver: windows of three bars
TradeDiWindows == {2}

\* the bar data a trade_di call may meet: a quote for every instrument it
\* evaluates
DiMarkets(unread, evaluated) ==
    [(IF unread THEN {} ELSE evaluated) -> DiQuotes]

\* the trending lists a caller passes
TSymbolLists == {<<>>, <<"A">>, <<"B">>, <<"A", "B">>, <<"B", "C">>}

InitTrade ==
    /\ IdleFill
    /\ IdleSys
    /\ i = 0
    /\ \E dw \in TradeDiWindows : sbot = Config("bfill", <<34, 100>>, 1, 1, dw, 1)
    /\ call = [op |-> "init", fetched |-> 0, evals |-> 0]
    /\ IdleRank
    /\ IdleTrade
    /\ IdleHandler

\* a new bar: the engine has filled the orders of the previous step
StepFill ==
    /\ i < MaxTradeStep
    /\ StepCounter
    /\ positions' = Fill(positions, pending)
    /\ pending' = NoOrders
    /\ tr' = NoTrade
    /\ UNCHANGED <<sbot, rk, hd, varsFill, varsSys>>

TradeDi ==
    /\ call.op = "step"
    /\ \E t_symbols \in TSymbolLists, max_pos \in 1..MaxPos :
         \E plist \in PositionLists(positions) :
          \E mkt \in DiMarkets(i < sbot.di_window + 1,
                               Range(SliceTo(plist \o t_symbols, max_pos))) :
            trade_di(i, t_symbols, max_pos, sbot.di_window, plist, mkt)
    /\ UNCHANGED <<i, positions, rk, hd, varsFill, varsSys>>

NextTrade == StepFill \/ TradeDi

SpecTrade == InitTrade /\ [][NextTrade]_vars

----------------------------------------------------------------------------
(* SpecStrat *)

\* so_window of the strategy driver: windows of five bars
SoWindows == {1}

\* the symbol lists the strategy driver passes
StratSymbolLists == {<<>>, <<"A">>, <<"A", "B">>}

\* the bar data a trade_sar / trade_so call may meet
SarMarkets(unread, evaluated) ==
    [(IF unread THEN {} ELSE evaluated) -> SarQuotes]

SoMarkets(unread, evaluated) ==
    [evaluated -> IF unread THEN {CHOOSE q \in SoQuotes : q.kind = "full" /\ q.so_k > q.so_d}
                  ELSE SoQuotes]

\* di_window of the strategy driver
StratDiWindows == {2, 3}

InitStrat ==
    /\ IdleFill
    /\ IdleSys
    /\ i = 0
    /\ \E dw \in StratDiWindows : sbot = Config("bfill", <<34, 100>>, 1, 1, dw, 1)
    /\ call = [op |-> "init", fetched |-> 0, evals |-> 0]
    /\ IdleRank
    /\ IdleTrade
    /\ IdleHandler

\* a new bar of the strategy driver
StratStep ==
    /\ i < MaxStratStep
    /\ rk.raised = "none"
    /\ StepCounter
    /\ positions' = Fill(positions, pending)
    /\ pending' = NoOrders
    /\ tr' = NoTrade
    /\ rk' = [args |-> NoArgs, ranked |-> FALSE, raised |-> "none", adx |-> NoOutcome]
    /\ UNCHANGED <<sbot, hd, varsFill, varsSys>>

StratDi ==
    /\ call.op = "step"
    /\ \E t_symbols \in StratSymbolLists, max_pos \in 1..MaxPos :
         \E plist \in PositionLists(positions) :
          \E mkt \in DiMarkets(i < sbot.di_window + 1,
                               Range(SliceTo(plist \o t_symbols, max_pos))) :
            trade_di(i, t_symbols, max_pos, sbot.di_window, plist, mkt)
    /\ UNCHANGED <<i, positions, rk, hd, varsFill, varsSys>>

TradeSar ==
    /\ call.op = "step"
    /\ \E t_symbols \in StratSymbolLists, max_pos \in 1..MaxPos :
         \E plist \in PositionLists(positions) :
          \E mkt \in SarMarkets(i < 2, Range(SliceTo(plist \o t_symbols, max_pos))) :
            trade_sar(i, t_symbols, max_pos, plist, mkt)
    /\ UNCHANGED <<i, positions, rk, hd, varsFill, varsSys>>

TradeSo ==
    /\ call.op = "step"
    /\ \E o_symbols \in StratSymbolLists, max_pos \in 1..MaxPos, so_window \in SoWindows :
         \E plist \in PositionLists(positions) :
          \E mkt \in SoMarkets(i < so_window + 4,
                               Range(SliceTo(plist \o o_symbols, max_pos))) :
            trade_so(i, o_symbols, max_pos, so_window, plist, mkt)
    /\ UNCHANGED <<i, positions, rk, hd, varsFill, varsSys>>

\* any sequence of adx_rank, trade_di, trade_sar and trade_so calls, one
\* per bar, the engine filling the orders between bars
NextStrat == StratStep \/ AdxRank \/ StratDi \/ TradeSar \/ TradeSo

SpecStrat == InitStrat /\ [][NextStrat]_vars

----------------------------------------------------------------------------
(* SpecSys *)

\* the ticker lists passed to init
TickerLists == UNION {[1..n -> Tickers] : n \in 0..MaxTickers}

CapitalArgs == {NoCapital, CapitalPpt}

\* the max_pos and the trend strategy of a system
SysMaxPos == {1, 2}

TrendOps == {"trade_di", "trade_sar"}

\* the symbols of c['top'] / c['bot'] passed as t_symbols / o_symbols:
\* adx_rank draws them from c['symbols'], at most top_rank = bot_rank = 1
\* of them
UniverseLists(symbols) ==
    {<<>>} \cup {<<a>> : a \in Range(symbols)}

\* the ticker lists of the systems run: none, none that resolves, two that
\* resolve around one that does not
SysTickerLists == {<<>>, <<"X">>, <<"A", "X", "B">>}

\* the engine is about to call initialize with one of the ticker lists
SysStart(lists) ==
    /\ IdleFill
    /\ i = 0
    /\ sbot = NoConfig
    /\ \E tickers \in lists, capital_ppt \in CapitalArgs :
          ini = [tickers |-> tickers, capital_ppt |-> capital_ppt, st |-> "pending"]
    /\ \E max_pos \in SysMaxPos, trend \in TrendOps :
          drv = [max_pos |-> max_pos, trend |-> trend]
    /\ pf = NoPortfolio
    /\ call = [op |-> "start", fetched |-> 0, evals |-> 0]
    /\ IdleRank
    /\ IdleTrade
    /\ IdleHandler

InitSys == SysStart(SysTickerLists)

InitInit == SysStart(TickerLists)

\* initialize(context)
SysInit ==
    /\ ini.st = "pending"
    /\ init(ini.tickers, ini.capital_ppt)
    /\ call' = [op |-> "init", fetched |-> 0, evals |-> 0]
    /\ UNCHANGED <<rk, positions, pending, tr, hd, drv, pf, varsFill>>

\* a new bar of the system: the engine has filled the orders of the last
SysStep ==
    /\ ini.st = "stored"
    /\ call.op \in {"init", "trade_so"}
    /\ i < MaxSysStep
    /\ StepCounter
    /\ positions' = Fill(positions, pending)
    /\ pending' = NoOrders
    /\ tr' = NoTrade
    /\ UNCHANGED <<sbot, rk, hd, varsFill, varsSys>>

\* the trend strategy of the system, called with its max_pos
SysTrend ==
    /\ call.op = "step"
    /\ \E t_symbols \in UniverseLists(sbot.symbols) :
         \E plist \in PositionLists(positions) :
            \/ /\ drv.trend = "trade_di"
               /\ \E mkt \in DiMarkets(i < sbot.di_window + 1,
                                        Range(SliceTo(plist \o t_symbols, drv.max_pos))) :
                     trade_di(i, t_symbols, drv.max_pos, sbot.di_window, plist, mkt)
            \/ /\ drv.trend = "trade_sar"
               /\ \E mkt \in SarMarkets(i < 2,
                                         Range(SliceTo(plist \o t_symbols, drv.max_pos))) :
                     trade_sar(i, t_symbols, drv.max_pos, plist, mkt)
    /\ UNCHANGED <<i, positions, rk, hd, varsFill, varsSys>>

\* the stochastic strategy of the system, called with the same max_pos
SysSo ==
    /\ call.op \in TrendOps
    /\ \E o_symbols \in UniverseLists(sbot.symbols), so_window \in SoWindows :
         \E plist \in PositionLists(positions) :
          \E mkt \in SoMarkets(i < so_window + 4,
                               Range(SliceTo(plist \o o_symbols, drv.max_pos))) :
            trade_so(i, o_symbols, drv.max_pos, so_window, plist, mkt)
    /\ UNCHANGED <<i, positions, rk, hd, varsFill, varsSys>>

\* the run ends: the engine fills the orders of the last bar
SysEnd ==
    /\ call.op = "trade_so"
    /\ i = MaxSysStep
    /\ positions' = Fill(positions, pending)
    /\ pending' = NoOrders
    /\ call' = [op |-> "end", fetched |-> 0, evals |-> 0]
    /\ UNCHANGED <<i, sbot, rk, tr, hd, varsFill, varsSys>>

NextSys == SysInit \/ SysStep \/ SysTrend \/ SysSo \/ SysEnd

SpecSys == InitSys /\ [][NextSys]_vars

\* init alone, over every ticker list
NextInit == SysInit

SpecInit == InitInit /\ [][NextInit]_vars

----------------------------------------------------------------------------
(* SpecRun *)

\* [s for (s, adx) in context.sbot['top']]
SymbolsOf(seq) == [k \in 1..Len(seq) |-> seq[k][1]]

\* the bars the trading calls of the run may meet: complete ones, or the
\* oldest bar missing
RunDiQuotes == {q \in DiQuotes : q.kind \in {"full", "lead"}}

RunSoQuotes == {q \in SoQuotes : q.kind \in {"full", "lead"}}

\* a quote for every instrument (the call is defined whatever it
\* evaluates), drawn for those it does evaluate
RunDiMarkets(unread, evaluated) ==
    {[s \in Symbols |->
         IF s \in evaluated /\ ~unread THEN m[s]
         ELSE CHOOSE q \in DiQuotes : q.kind = "full" /\ q.plus_di > q.minus_di] :
     m \in [evaluated -> RunDiQuotes]}

RunSoMarkets(unread, evaluated) ==
    {[s \in Symbols |->
         IF s \in evaluated /\ ~unread THEN m[s]
         ELSE CHOOSE q \in SoQuotes : q.kind = "full" /\ q.so_k > q.so_d] :
     m \in [evaluated -> RunSoQuotes]}

\* initialize(context) of adx_di_so: top = bot = [], nothing held
InitRun ==
    /\ IdleFill
    /\ ini = [tickers |-> Universe, capital_ppt |-> CapitalPpt, st |-> "stored"]
    /\ \E max_pos \in SysMaxPos : drv = [max_pos |-> max_pos, trend |-> "trade_di"]
    /\ pf = NoPortfolio
    /\ i = 0
    /\ \E n \in 1..MaxRankEvery :
          sbot = Config("bfill", <<34, 100>>, 1, 1, ADXTimeperiod, n)
    /\ call = [op |-> "init", fetched |-> 0, evals |-> 0]
    /\ IdleRank
    /\ IdleTrade
    /\ IdleHandler

\* the head of handle_data at a new bar (the engine has filled the orders
\* of the last): the counter is incremented and, on a rank iteration, the
\* universe is ranked
RunHead ==
    /\ call.op \in {"init", "trade_so"}
    /\ i < MaxRunStep
    /\ i' = i + 1
    /\ positions' = Fill(positions, pending)
    /\ pending' = NoOrders
    /\ tr' = NoTrade
    /\ IF IsRankStep(i + 1, sbot.rank_every)
       THEN \E mkt \in ArgMarkets(i + 1 < sbot.di_window * 2) :
               adx_rank(i + 1, sbot.top_rank, sbot.bot_rank, sbot.di_window, mkt)
       ELSE /\ call' = [op |-> "handle_data", fetched |-> 0, evals |-> 0]
            /\ rk' = [args |-> NoArgs, ranked |-> FALSE, raised |-> "none",
                      adx |-> NoOutcome]
            /\ UNCHANGED sbot
    /\ UNCHANGED <<hd, varsFill, varsSys>>

\* trade_di on the stored top set, called with the max_pos of the run
RunDi ==
    /\ call.op \in {"adx_rank", "handle_data"}
    /\ \E plist \in PositionLists(positions) :
         \E mkt \in RunDiMarkets(i < sbot.di_window + 1,
                                  Range(SliceTo(plist \o SymbolsOf(sbot.top), drv.max_pos))) :
            trade_di(i, SymbolsOf(sbot.top), drv.max_pos, sbot.di_window, plist, mkt)
    /\ UNCHANGED <<i, positions, rk, hd, varsFill, varsSys>>

\* trade_so on the stored bot set, called with the same max_pos
RunSo ==
    /\ call.op = "trade_di"
    /\ \E so_window \in SoWindows :
         \E plist \in PositionLists(positions) :
          \E mkt \in RunSoMarkets(i < so_window + 4,
                                  Range(SliceTo(plist \o SymbolsOf(sbot.bot), drv.max_pos))) :
            trade_so(i, SymbolsOf(sbot.bot), drv.max_pos, so_window, plist, mkt)
    /\ UNCHANGED <<i, positions, rk, hd, varsFill, varsSys>>

NextRun == RunHead \/ RunDi \/ RunSo

SpecRun == InitRun /\ [][NextRun]_vars

----------------------------------------------------------------------------
(* SpecPortfolio *)

\* a Portfolio has been constructed
InitPortfolio ==
    /\ IdleFill
    /\ IdleCtx
    /\ ini = [tickers |-> Universe, capital_ppt |-> CapitalPpt, st |-> "stored"]
    /\ drv = [max_pos |-> 0, trend |-> "none"]
    /\ \E l \in Portfolios : pf = [NoPortfolio EXCEPT !.portfolio = l, !.st = "pending"]

PortfolioAdxRank ==
    /\ pf.st = "pending"
    /\ \E bar_count \in BarCounts, mkt \in [Range(pf.portfolio) -> PfQuotes] :
          portfolio_adx_rank(bar_count, mkt)
    /\ UNCHANGED <<ini, drv, varsCtx, varsFill>>

NextPortfolio == PortfolioAdxRank

SpecPortfolio == InitPortfolio /\ [][NextPortfolio]_vars

----------------------------------------------------------------------------
(* SpecDiSo *)

\* initialize(context) of adx_di_so, over the configurations of the model
InitDiSo ==
    /\ IdleFill
    /\ IdleSys
    /\ i = 0
    /\ \E l \in RankLimits, t \in 0..MaxRank, b \in 0..MaxRank, dw \in DiWindows,
          n \in 1..MaxRankEvery :
          sbot = Config("bfill", l, t, b, dw, n)
    /\ call = [op |-> "init", fetched |-> 0, evals |-> 0]
    /\ IdleRank
    /\ IdleTrade
    /\ IdleHandler

\* the engine calls handle_data once per bar until it raises
HandleData ==
    /\ hd.raised = "none"
    /\ \E sub \in Subscripts :
         \E mkt \in Markets(i + 1 < sbot.di_window * 2) :
            handle_data(sub, mkt)
    /\ UNCHANGED <<varsFill, varsSys>>

NextDiSo == HandleData

SpecDiSo == InitDiSo /\ [][NextDiSo]_vars

\* the engine delivers every bar: handle_data is called again as long as
\* the run has not ended on an error
FairDiSo == InitDiSo /\ [][NextDiSo]_vars /\ WF_vars(HandleData)

----------------------------------------------------------------------------
(* Properties of the fill policy (SpecFill) *)

\* the missing fraction of series v is at most lim
WithinLimit(v, lim) == isnull_sum(v) * lim[2] <= lim[1] * Len(v)

Called == gd_out.st # "pending"

C2_AllOrNothing ==
    Called =>
        /\ (\E f \in FieldSet : ExceedsLimit(gd_in.input[f], gd_in.fillna_limit))
              => gd_out.st = "none"
        /\ gd_out.st = "ok" =>
              /\ DOMAIN gd_out.w = FieldSet
              /\ \A f \in FieldSet : Len(gd_out.w[f]) = Len(gd_in.input[f])

\* a rejected window with one field over the limit and the others complete
C2_Witness ==
    /\ gd_out.st = "none"
    /\ \E f \in FieldSet :
          /\ ExceedsLimit(gd_in.input[f], gd_in.fillna_limit)
          /\ \A g \in FieldSet \ {f} : isnull_sum(gd_in.input[g]) = 0

\* C3: every window returned under a forward or backward fill holds no
\* missing value at any position of any field.
C3_ReturnedWindowHasNoGaps ==
    gd_out.st = "ok" =>
        \A f \in FieldSet : \A j \in 1..Len(gd_out.w[f]) : gd_out.w[f][j] # NaN

----------------------------------------------------------------------------
(* Properties of the ranking engine (SpecRank) *)

Ranked == call.op = "adx_rank" /\ rk.ranked

\* instruments whose window was accepted and whose last ADX is defined
Rankable == {s \in Symbols : rk.adx[s].st = "ok"}

Entries(seq) == {seq[k] : k \in 1..Len(seq)}

\* position of instrument s in the sequence of instruments or rank entries
UniversePos(s) == CHOOSE k \in 1..Len(Universe) : Universe[k] = s

RankPos(s) == CHOOSE k \in 1..Len(sbot.rank) : sbot.rank[k][1] = s

\* the last n entries of seq (none when n = 0)
LastN(seq, n) == SubSeq(seq, Len(seq) - Min(n, Len(seq)) + 1, Len(seq))

\* C4: after a successful adx_rank the rank is exactly the accepted
\* instruments with a defined ADX, each with its value, in descending order;
\* top is the first top_rank entries and bot the last bot_rank entries.
C4_RankTopBot ==
    Ranked =>
        /\ Len(sbot.rank) = Cardinality(Rankable)
        /\ Entries(sbot.rank) = {<<s, rk.adx[s].v>> : s \in Rankable}
        /\ \A k \in 1..(Len(sbot.rank) - 1) : sbot.rank[k][2] >= sbot.rank[k + 1][2]
        /\ sbot.top = SubSeq(sbot.rank, 1, Min(sbot.top_rank, Len(sbot.rank)))
        /\ sbot.bot = LastN(sbot.rank, sbot.bot_rank)

\* C5: two instruments with equal ADX keep, in rank, the relative order they
\* have in the universe passed to adx_rank.
C5_StableTieBreak ==
    Ranked =>
        \A a, b \in Rankable :
            (rk.adx[a].v = rk.adx[b].v /\ UniversePos(a) < UniversePos(b))
                => RankPos(a) < RankPos(b)

\* C6: with bot_rank = 0 a successful adx_rank stores an empty bottom set.
C6_ZeroBotRankEmpty ==
    (Ranked /\ sbot.bot_rank = 0) => sbot.bot = <<>>

\* C7: adx_rank called at a step count below 2 * di_window fetches no bar
\* data, evaluates no indicator and leaves rank, top and bot as they were.
C7_NoRankingBeforeHistory ==
    [][(call'.op = "adx_rank" /\ call.op # "adx_rank"
            /\ i < 2 * rk'.args.di_window)
        => /\ call'.fetched = 0
           /\ call'.evals = 0
           /\ sbot'.has_rank = sbot.has_rank
           /\ sbot'.rank = sbot.rank
           /\ sbot'.top = sbot.top
           /\ sbot'.bot = sbot.bot]_vars

\* adx_rank has just returned early, one step short of its history depth
C7_Witness ==
    /\ call.op = "adx_rank"
    /\ ~rk.ranked
    /\ i = 2 * rk.args.di_window - 1
    /\ ~sbot.has_rank

\* C17: an ADX evaluator failure other than all-undefined inputs ends
\* adx_rank with that error and leaves the stored rank, top and bot as they
\* were; an all-undefined failure only skips its instrument, the others
\* being ranked as usual.
C17_EvaluatorFailure ==
    [][(call'.op = "adx_rank" /\ call.op = "step")
        => /\ (\E s \in Symbols : rk'.adx[s].st = "error")
                => /\ rk'.raised = "Exception"
                   /\ ~rk'.ranked
                   /\ sbot'.has_rank = sbot.has_rank
                   /\ sbot'.rank = sbot.rank
                   /\ sbot'.top = sbot.top
                   /\ sbot'.bot = sbot.bot
           /\ ((\E s \in Symbols : rk'.adx[s].st = "allnan")
                  /\ (\A s \in Symbols : rk'.adx[s].st # "error"))
                => /\ rk'.raised = "none"
                   /\ rk'.ranked
                   /\ {e[1] : e \in Entries(sbot'.rank)}
                         = {s \in Symbols : rk'.adx[s].st = "ok"}]_vars

\* adx_rank has just raised the evaluator's error over a stored ranking
C17_Witness ==
    /\ call.op = "adx_rank"
    /\ rk.raised = "Exception"
    /\ sbot.has_rank
    /\ sbot.rank # <<>>

----------------------------------------------------------------------------
(* Properties of the adx_di_so system (SpecDiSo) *)

\* C8: in every step of the periodically re-ranked system the trading
\* strategies run on the stored top and bot sets, and on a step that is not
\* a rank step these sets are the ones of the previous step.
C8_StrategiesUseStoredSets ==
    hd.ran =>
        /\ hd.raised = "none"
        /\ hd.traded
        /\ ~hd.rank_step => (sbot.top = hd.top_was /\ sbot.bot = hd.bot_was)

----------------------------------------------------------------------------
(* Properties of the directional-indicator strategy (SpecTrade) *)

DiTraded == call.op = "trade_di" /\ i >= sbot.di_window + 1

\* the orders of the last trading call that are for instrument s
OrdersFor(s) == {k \in 1..Len(tr.orders) : tr.orders[k].symbol = s}

\* C9: no order is emitted for a symbol held long whose signal is long, nor
\* for one held short whose signal is short: a long order goes out only at
\* a position <= 0 and a short order only at a position >= 0.
C9_RedundantOrderSuppressed ==
    DiTraded =>
        \A k \in 1..Len(tr.orders) :
            /\ tr.orders[k].order_type = "long" => positions[tr.orders[k].symbol] <= 0
            /\ tr.orders[k].order_type = "short" => positions[tr.orders[k].symbol] >= 0

Occurrences(s) == Cardinality({k \in 1..Len(tr.loop) : tr.loop[k] = s})

C12_RotationClose ==
    DiTraded =>
        \A s \in Symbols :
            (positions[s] > 0 /\ s \notin Range(tr.t_symbols))
                => /\ OrdersFor(s) # {}
                   /\ \A k \in OrdersFor(s) : tr.orders[k].target = 0

----------------------------------------------------------------------------
(* Properties of the three strategies (SpecStrat) *)

TradeOps == {"trade_di", "trade_sar", "trade_so"}

\* the history depth a trading call requires, from its arguments
Requirement(t) ==
    IF t.op = "trade_di" THEN t.window + 1
    ELSE IF t.op = "trade_sar" THEN 2
    ELSE t.window + 4

\* C11: a trading strategy called at a step count below its window
\* requirement (trade_di: di_window + 1, trade_sar: 2, trade_so:
\* so_window + 4) emits no order, fetches no bar window, computes no
\* indicator and records no order metadata, whatever is held or selected.
C11_InsufficientHistoryNoOp ==
    [][(call'.op \in TradeOps /\ call.op = "step" /\ i < Requirement(tr'))
        => /\ tr'.orders = <<>>
           /\ tr'.loop = <<>>
           /\ pending' = pending
           /\ call'.fetched = 0
           /\ call'.evals = 0
           /\ sbot'.order_meta = sbot.order_meta]_vars

\* trade_so has just returned early, one step short of its requirement,
\* with a position held and symbols selected
C11_Witness ==
    /\ call.op = "trade_so"
    /\ i = tr.window + 3
    /\ tr.orders = <<>>
    /\ tr.t_symbols # <<>>
    /\ \E s \in Symbols : positions[s] # 0

\* the target the resolution rule gives a signal, for an instrument held
\* in the amount `held` that is or is not in the universe passed
ResolvedTarget(signal, held, in_universe, capital_ppt) ==
    IF \/ signal = "close"
       \/ signal = "short" /\ held > 0 /\ ~in_universe
       \/ signal = "long" /\ held < 0 /\ ~in_universe
    THEN 0
    ELSE IF signal = "long" THEN capital_ppt ELSE 0 - capital_ppt

\* C13: in trade_di, trade_sar and trade_so alike, the target of every
\* order is 0 if the signal is close, or short on a long holder outside the
\* universe, or long on a short holder outside the universe; otherwise
\* +capital_ppt for long and -capital_ppt for short.  The target depends on
\* the signal, the universe and the position only, not on the strategy.
C13_TargetResolution ==
    call.op \in TradeOps =>
        \A k \in 1..Len(tr.orders) :
            tr.orders[k].target =
                ResolvedTarget(tr.orders[k].order_type,
                               positions[tr.orders[k].symbol],
                               tr.orders[k].symbol \in Range(tr.t_symbols),
                               sbot.capital_ppt)

\* trade_so covers (target 0) a short holder that left its universe on a
\* long signal
C13_Witness ==
    /\ call.op = "trade_so"
    /\ \E k \in 1..Len(tr.orders) :
          /\ tr.orders[k].order_type = "long"
          /\ positions[tr.orders[k].symbol] < 0
          /\ tr.orders[k].symbol \notin Range(tr.t_symbols)
          /\ tr.orders[k].target = 0

----------------------------------------------------------------------------
(* Properties of init (SpecInit) and of a system run (SpecSys) *)

\* the positions of the requested tickers that resolve
Kept(tickers) == {k \in 1..Len(tickers) : tickers[k] \in Symbols}

\* the n-th smallest element of a set of positions
Nth(S, n) == CHOOSE k \in S : Cardinality({m \in S : m <= k}) = n

\* symbols is the subsequence of tickers at the positions that resolve
IsKeptSubsequence(symbols, tickers) ==
    /\ Len(symbols) = Cardinality(Kept(tickers))
    /\ \A n \in 1..Len(symbols) : symbols[n] = tickers[Nth(Kept(tickers), n)]

\* C14: init never aborts on unresolvable tickers, and the stored universe
\* is the subsequence of the requested tickers that resolve, in their
\* requested order.
C14_InitKeepsResolvable ==
    ini.st # "pending" =>
        /\ ini.tickers # <<>> => ini.st = "stored"
        /\ ini.st = "stored" => IsKeptSubsequence(sbot.symbols, ini.tickers)

\* C15: init called without a capital_ppt stores 1 / (number of resolved
\* symbols of the stored universe), not 1 / (number of requested tickers).
C15_DefaultCapital ==
    (ini.st = "stored" /\ ini.capital_ppt = NoCapital) =>
        /\ Len(sbot.symbols) = Cardinality(Kept(ini.tickers))
        /\ sbot.capital_ppt * Len(sbot.symbols) = One

\* init without a capital_ppt has dropped a ticker and kept another
C15_Witness ==
    /\ ini.st = "stored"
    /\ ini.capital_ppt = NoCapital
    /\ Len(sbot.symbols) > 0
    /\ Len(sbot.symbols) < Len(ini.tickers)

Held == {s \in Symbols : positions[s] # 0}

C20_MaxPosBound ==
    Cardinality(Held) <= drv.max_pos

----------------------------------------------------------------------------
(* Further properties of the three strategies (SpecStrat) *)

\* C18: in trade_di, trade_sar and trade_so no order of any target is
\* emitted, in a step, for a symbol whose indicator value at the last bar
\* is undefined in that step.
C18_UndefinedIndicatorSkipped ==
    call.op \in TradeOps =>
        \A k \in 1..Len(tr.orders) : ~tr.orders[k].nan

\* the fields of the configuration record other than the ranking
FrameFields == DOMAIN sbot \ {"rank", "top", "bot", "has_rank"}

C21_EvaluatedOnce ==
    call.op \in TradeOps =>
        /\ Len(tr.loop) <= tr.max_pos
        /\ \A a, b \in 1..Len(tr.loop) : a # b => tr.loop[a] # tr.loop[b]
        /\ \A a, b \in 1..Len(tr.orders) :
              a # b => tr.orders[a].symbol # tr.orders[b].symbol
        /\ \A a, b \in 1..Len(tr.loop) :
              (a < b /\ positions[tr.loop[b]] # 0) => positions[tr.loop[a]] # 0

\* C22: at every step count i >= 2 trade_sar requests, for each symbol it
\* evaluates, a window of exactly i bars (one more at every step, never a
\* fixed lookback); at a step count below 2 it requests nothing.
C22_SarGrowingWindow ==
    [][(call'.op = "trade_sar" /\ call.op = "step")
        => IF i >= 2
           THEN /\ tr'.window = i
                /\ call'.fetched = Len(Fields) * Len(tr'.loop)
           ELSE /\ tr'.window = 0
                /\ call'.fetched = 0]_vars

\* trade_sar has evaluated and ordered a symbol over a window of more than
\* two bars
C22_Witness ==
    /\ call.op = "trade_sar"
    /\ i > 2
    /\ tr.window = i
    /\ tr.orders # <<>>

----------------------------------------------------------------------------
(* Further properties of adx_rank (SpecRank) *)

\* the instruments of a list of (instrument, ADX) pairs
Instruments(seq) == {e[1] : e \in Range(seq)}

\* C23: after a successful adx_rank over a universe of more than
\* top_rank + bot_rank instruments, no instrument is both in top and in bot.
C23_TopBotDisjoint ==
    (/\ call.op = "adx_rank"
     /\ rk.ranked
     /\ Len(sbot.symbols) > sbot.top_rank + sbot.bot_rank)
        => Instruments(sbot.top) \cap Instruments(sbot.bot) = {}

----------------------------------------------------------------------------
(* Properties of Portfolio.adx_rank (SpecPortfolio) *)

\* the number of bars at the end of the window of an instrument quoted q
\* that are present in every field
TrailingBars(q, bar_count) ==
    LET w == pull(q, bar_count)
        gaps == {j \in 1..bar_count : \E f \in FieldSet : w[f][j] = NaN}
    IN  IF gaps = {} THEN bar_count
        ELSE bar_count - (CHOOSE j \in gaps : \A k \in gaps : j >= k)

\* every input of an instrument quoted q is undefined at every bar
AllUndefined(q, bar_count) ==
    \A j \in 1..bar_count : \E f \in FieldSet : pull(q, bar_count)[f][j] = NaN

\* C24: Portfolio.adx_rank returns (instrument, ADX) pairs in descending
\* order of ADX, one for each portfolio instrument with 28 bars to its
\* name and none for an instrument with fewer bars or all-undefined inputs;
\* a portfolio of only such instruments yields the empty list, not an
\* error.  (Instruments on which the evaluator fails otherwise are apart.)
C24_PortfolioRank ==
    (/\ pf.st \notin {"none", "pending"}
     /\ \A s \in Range(pf.portfolio) : pf.mkt[s].kind # "fault") =>
        LET P == Range(pf.portfolio)
            omitted == {s \in P : \/ TrailingBars(pf.mkt[s], pf.bar_count) < 2 * ADXTimeperiod
                                  \/ AllUndefined(pf.mkt[s], pf.bar_count)}
        IN  /\ pf.st = "returned"
            /\ \A a \in 1..(Len(pf.result) - 1) :
                  pf.result[a][2] >= pf.result[a + 1][2]
            /\ \A a, b \in 1..Len(pf.result) :
                  a # b => pf.result[a][1] # pf.result[b][1]
            /\ \A a \in 1..Len(pf.result) :
                  pf.result[a][2] = pf.mkt[pf.result[a][1]].adx
            /\ Instruments(pf.result) = P \ omitted
            /\ omitted = P => pf.result = <<>>

\* a portfolio of a short-listed instrument and one without any data has
\* been ranked over the default 28 bars
C24_Witness ==
    /\ pf.st = "returned"
    /\ pf.bar_count = 2 * ADXTimeperiod
    /\ pf.result = <<>>
    /\ \E s \in Range(pf.portfolio) : pf.mkt[s].kind = "empty"
    /\ \E s \in Range(pf.portfolio) : pf.mkt[s].kind = "lead"

\* C25: for every di_window a window of 2 * di_window bars is enough for
\* the ADX of adx_rank: in a call at a step count >= 2 * di_window an
\* instrument whose bars are all present is ranked, not skipped for an
\* undefined ADX.
C25_WindowSufficient ==
    (call.op = "adx_rank" /\ i >= 2 * rk.args.di_window) =>
        \A q \in Quotes :
            q.kind = "full" => rank_outcome(sbot, q, rk.args.di_window).st = "ok"

----------------------------------------------------------------------------
(* Further properties of the adx_di_so system (SpecDiSo) *)

\* C26: the first handle_data call after initialize (step count 1) produces
\* a ranking: rank, top and bot are computed from the universe in that step.
C26_FirstStepRanks ==
    (hd.ran /\ i = 1) =>
        /\ hd.rank_step
        /\ rk.ranked
        /\ sbot.has_rank

----------------------------------------------------------------------------
(* Properties of adx_rank called with its own arguments (SpecArgs) *)

\* C27: after a successful call adx_rank(..., top_rank=t, bot_rank=b), top
\* holds the first min(t, len(rank)) entries of rank and bot the last
\* min(b, len(rank)), whatever top_rank and bot_rank the configuration
\* stores.
C27_StoresByArguments ==
    (call.op = "adx_rank" /\ rk.ranked) =>
        /\ sbot.top = SubSeq(sbot.rank, 1, Min(rk.args.top_rank, Len(sbot.rank)))
        /\ sbot.bot = SubSeq(sbot.rank,
                             Len(sbot.rank) - Min(rk.args.bot_rank, Len(sbot.rank)) + 1,
                             Len(sbot.rank))

\* C29: the first successful ranking of adx_di_so happens at the smallest
\* step count i with i >= 2 * di_window and (i - 1) divisible by
\* rank_every, hence no later than step 2 * di_window + rank_every - 1
\* (and rankings follow every rank_every steps).
C29_FirstRanking ==
    <>(/\ sbot.has_rank
       /\ i >= 2 * sbot.di_window
       /\ (i - 1) % sbot.rank_every = 0
       /\ i <= 2 * sbot.di_window + sbot.rank_every - 1)

----------------------------------------------------------------------------
(* Further properties of a system run (SpecSys) *)

\* the number of orders for instrument s among the orders of a call
OrderCount(orders, s) == Cardinality({k \in 1..Len(orders) : orders[k].symbol = s})

\* C30: in a step that runs a trend strategy and then trade_so over the
\* same position table, each symbol receives at most one order in total
\* (so never two orders with different targets).
C30_OneOrderPerStep ==
    [][(call'.op = "trade_so" /\ call.op \in TrendOps)
        => \A s \in Symbols :
              OrderCount(tr.orders, s) + OrderCount(tr'.orders, s) <= 1]_vars

----------------------------------------------------------------------------
(* Properties of a run of adx_di_so (SpecRun) *)

\* C28: from init with top = bot = [] and nothing held, no order is emitted
\* on any step before the first step on which adx_rank has stored a
\* ranking: every order is preceded by, or in the same step as, a
\* successful ranking.
C28_NoOrderBeforeRanking ==
    (\/ tr.orders # <<>>
     \/ \E s \in Symbols : pending[s].has
     \/ Held # {}
     \/ sbot.order_meta > 0) => sbot.has_rank

\* the steps before the first ranking have passed with both strategies
\* past their history requirement, and orders are emitted in the step of
\* the ranking
C28_Witness ==
    /\ call.op = "trade_so"
    /\ i >= 2 * sbot.di_window
    /\ sbot.has_rank
    /\ tr.orders # <<>>
    /\ sbot.order_meta > Len(tr.orders)

====
